---- MODULE Spec2Model ----
(***************************************************************************)
(* seqan3::alignment_result (alignment/pairwise/alignment_result.hpp) and  *)
(* the search error-budget configuration elements                          *)
(* (search/configuration/max_error.hpp).                                   *)
(*                                                                         *)
(* A field of the value object whose template argument is left at          *)
(* std::nullopt_t * is "absent"; its value-initialised content is the null *)
(* pointer, written NullOpt.  A field of a real type holds Some(x).        *)
(* A failing static_assert is a build-time rejection of the access; it is  *)
(* written CapabilityError.                                                *)
(***************************************************************************)
EXTENDS Integers, Sequences, FiniteSets, TLC

VARIABLES
    pc,       \* life cycle of the observed alignment_result object
    T,        \* the fields whose template argument is not std::nullopt_t *
    deduced,  \* the number of arguments of the deduction guide that gave T
    value,    \* the alignment_result_value_type object the content came from
    data,     \* alignment_result::data
    lastOp,   \* the operation of the public interface that ran last
    ret,      \* what that operation gave back
    out,      \* what the debug stream received from the last operator<<
    called,   \* the accessors the last operator<< invoked
    bundle,   \* the search configuration assembled so far
    history,  \* the elements combined into bundle, oldest first
    arg,      \* the argument of the last construction of an error-budget value
    made,     \* what that construction gave
    vop       \* the operation on error-budget values that ran last

vars == <<pc, T, deduced, value, data, lastOp, ret, out, called, bundle, history, arg, made, vop>>

resultVars == <<pc, T, deduced, value, data, lastOp, ret, out, called>>

valueVars == <<arg, made, vop>>

configVars == <<bundle, history, arg, made, vop>>

(***************************************************************************)
(* Bounds of the model.                                                    *)
(***************************************************************************)
MaxPos == 0

MaxCombines == 3

MaxCount == 2

MaxStores == 2

(***************************************************************************)
(* The value object: alignment_result_value_type.                          *)
(***************************************************************************)
FieldOrder ==
    << "id", "score", "end_positions", "begin_positions", "alignment",
       "score_debug_matrix", "trace_debug_matrix" >>

Fields == { FieldOrder[i] : i \in 1 .. Len(FieldOrder) }

NullOpt == << >>

Some(x) == << x >>

Pair(a, b) == [first |-> a, second |-> b]

ScenarioPositions == { Pair(2, 3), Pair(9, 11) }

PositionPairs ==
    { Pair(a, b) : a \in 0 .. MaxPos, b \in 0 .. MaxPos } \cup ScenarioPositions

IdValues == { "r1", "r2" }

ScoreValues == { 42, -7 }

AlignmentValues == { "AC-T|ACGT" }

ScoreMatrixValues == { "S[2x2]" }

TraceMatrixValues == { "T[2x2]" }

Domain(f) ==
    CASE f = "id" -> IdValues
      [] f = "score" -> ScoreValues
      [] f = "end_positions" -> PositionPairs
      [] f = "begin_positions" -> PositionPairs
      [] f = "alignment" -> AlignmentValues
      [] f = "score_debug_matrix" -> ScoreMatrixValues
      [] f = "trace_debug_matrix" -> TraceMatrixValues

\* The value of a member declared `member_t member{}`.
ValueInitialised(f) ==
    CASE f = "id" -> ""
      [] f = "score" -> 0
      [] f = "end_positions" -> Pair(0, 0)
      [] f = "begin_positions" -> Pair(0, 0)
      [] f = "alignment" -> ""
      [] f = "score_debug_matrix" -> ""
      [] f = "trace_debug_matrix" -> ""

\* Members of class type (strings, containers): a move leaves them valid but
\* unspecified.  Scores and position pairs are arithmetic and are copied.
ClassTypeFields == { "id", "alignment", "score_debug_matrix", "trace_debug_matrix" }

\* What the external algorithm hands over: a value for every field.
AlgorithmOutput ==
    { [id |-> i, score |-> s, end_positions |-> e, begin_positions |-> b,
       alignment |-> a, score_debug_matrix |-> sm, trace_debug_matrix |-> tm] :
        i \in IdValues, s \in ScoreValues, e \in PositionPairs, b \in PositionPairs,
        a \in AlignmentValues, sm \in ScoreMatrixValues, tm \in TraceMatrixValues }

\* Mutant: the begin_positions member declared with end_positions_t.
alignment_result_value_type_WrongMember(t, args) ==
    [f \in Fields |->
        IF (IF f = "begin_positions" THEN "end_positions" ELSE f) \in t
        THEN Some(args[f]) ELSE NullOpt]

\* The aggregate with template arguments t (the others default to
\* std::nullopt_t *) initialised from args.
alignment_result_value_type(t, args) ==
    [f \in Fields |-> IF f \in t THEN Some(args[f]) ELSE NullOpt]

\* Mutant: the guides name begin_positions_t before end_positions_t.
DeductionGuide_BeginFirst(k) ==
    { << "id", "score", "begin_positions", "end_positions", "alignment" >>[i] : i \in 1 .. k }

\* The template arguments a deduction guide with k constructor arguments gives.
DeductionGuide(k) == { FieldOrder[i] : i \in 1 .. k }

GuideArities == { 0, 2, 3, 4, 5 }

\* The template arguments were written out, not deduced.
NoGuide == -1

\* alignment_result_value_t data{} of a default-constructed result.
DefaultData(t) ==
    [f \in Fields |-> IF f \in t THEN Some(ValueInitialised(f)) ELSE NullOpt]

\* The output of the scenario of the specification, section 8.
ScenarioOutput ==
    [id |-> "r1", score |-> 42, end_positions |-> Pair(9, 11),
     begin_positions |-> Pair(2, 3), alignment |-> "AC-T|ACGT",
     score_debug_matrix |-> "S[2x2]", trace_debug_matrix |-> "T[2x2]"]

\* The results of type t an assignment takes its right-hand side from: a
\* default-constructed one and one built from the scenario's output.
AssignSources(t) == { DefaultData(t), alignment_result_value_type(t, ScenarioOutput) }

\* The states a defaulted move may leave its source in: each member of class
\* type is either left as it was or emptied.
MovedFrom(t, d) ==
    { [f \in Fields |-> IF f \in emptied THEN Some(ValueInitialised(f)) ELSE d[f]] :
        emptied \in SUBSET (t \cap ClassTypeFields) }

(***************************************************************************)
(* The accessors of alignment_result.  Each one static_asserts that the    *)
(* type of its member is not std::nullopt_t * and returns the member.      *)
(***************************************************************************)
Ok(slot) == [ok |-> TRUE, val |-> slot]

CapabilityError == [ok |-> FALSE, val |-> NullOpt]

id(t, d) ==
    IF "id" \notin t THEN CapabilityError ELSE Ok(d.id)

score(t, d) ==
    IF "score" \notin t THEN CapabilityError ELSE Ok(d.score)

sequence1_end_position(t, d) ==
    IF "end_positions" \notin t THEN CapabilityError
    ELSE Ok(Some(d.end_positions[1].first))

\* Mutant: returns the first component of the pair.
sequence2_end_position_First(t, d) ==
    IF "end_positions" \notin t THEN CapabilityError
    ELSE Ok(Some(d.end_positions[1].first))

sequence2_end_position(t, d) ==
    IF "end_positions" \notin t THEN CapabilityError
    ELSE Ok(Some(d.end_positions[1].second))

\* Mutant: returns the second component of the pair.
sequence1_begin_position_Second(t, d) ==
    IF "begin_positions" \notin t THEN CapabilityError
    ELSE Ok(Some(d.begin_positions[1].second))

sequence1_begin_position(t, d) ==
    IF "begin_positions" \notin t THEN CapabilityError
    ELSE Ok(Some(d.begin_positions[1].first))

sequence2_begin_position(t, d) ==
    IF "begin_positions" \notin t THEN CapabilityError
    ELSE Ok(Some(d.begin_positions[1].second))

\* Mutant: the static_assert is missing.
alignment_Unchecked(t, d) == Ok(d.alignment)

alignment(t, d) ==
    IF "alignment" \notin t THEN CapabilityError ELSE Ok(d.alignment)

score_matrix(t, d) ==
    IF "score_debug_matrix" \notin t THEN CapabilityError ELSE Ok(d.score_debug_matrix)

trace_matrix(t, d) ==
    IF "trace_debug_matrix" \notin t THEN CapabilityError ELSE Ok(d.trace_debug_matrix)

\* Mutant: alignment() hands its member out by moving from it.
ConstRead_MovesOut(a, t, d) ==
    IF a = "alignment" /\ "alignment" \in t
    THEN [d EXCEPT !.alignment = Some(ValueInitialised("alignment"))]
    ELSE d

\* data after result.a(): every accessor is a const member function.
ConstRead(a, t, d) == d

Accessors ==
    { "id", "score", "sequence1_end_position", "sequence2_end_position",
      "sequence1_begin_position", "sequence2_begin_position", "alignment",
      "score_matrix", "trace_matrix" }

\* The member an accessor reads.
FieldOf(a) ==
    CASE a = "id" -> "id"
      [] a = "score" -> "score"
      [] a = "sequence1_end_position" -> "end_positions"
      [] a = "sequence2_end_position" -> "end_positions"
      [] a = "sequence1_begin_position" -> "begin_positions"
      [] a = "sequence2_begin_position" -> "begin_positions"
      [] a = "alignment" -> "alignment"
      [] a = "score_matrix" -> "score_debug_matrix"
      [] a = "trace_matrix" -> "trace_debug_matrix"

\* result.a() on a result of type t holding d.
Call(a, t, d) ==
    CASE a = "id" -> id(t, d)
      [] a = "score" -> score(t, d)
      [] a = "sequence1_end_position" -> sequence1_end_position(t, d)
      [] a = "sequence2_end_position" -> sequence2_end_position(t, d)
      [] a = "sequence1_begin_position" -> sequence1_begin_position(t, d)
      [] a = "sequence2_begin_position" -> sequence2_begin_position(t, d)
      [] a = "alignment" -> alignment(t, d)
      [] a = "score_matrix" -> score_matrix(t, d)
      [] a = "trace_matrix" -> trace_matrix(t, d)

(***************************************************************************)
(* operator<<(debug_stream_type &, alignment_result).                      *)
(***************************************************************************)
has_id(t) == "id" \in t

has_score(t) == "score" \in t

has_end_positions(t) == "end_positions" \in t

\* Mutant: the presence of the end positions is tested instead.
has_begin_positions_CopyPaste(t) == "end_positions" \in t

has_begin_positions(t) == "begin_positions" \in t

has_alignment(t) == "alignment" \in t

\* The accessors the `if constexpr` branches of operator<< invoke.
StreamCalls(t) ==
    (IF has_id(t) THEN { "id" } ELSE {})
    \cup (IF has_score(t) THEN { "score" } ELSE {})
    \cup (IF has_begin_positions(t)
          THEN { "sequence1_begin_position", "sequence2_begin_position" } ELSE {})
    \cup (IF has_end_positions(t)
          THEN { "sequence1_end_position", "sequence2_end_position" } ELSE {})
    \cup (IF has_alignment(t) THEN { "alignment" } ELSE {})

\* The characters operator<< writes.
StreamText(t, d) ==
    "{"
    \o (IF has_id(t) THEN "id: " \o id(t, d).val[1] ELSE "")
    \o (IF has_score(t) THEN ", score: " \o ToString(score(t, d).val[1]) ELSE "")
    \o (IF has_begin_positions(t)
        THEN ", begin: (" \o ToString(sequence1_begin_position(t, d).val[1]) \o ","
             \o ToString(sequence2_begin_position(t, d).val[1]) \o ")"
        ELSE "")
    \o (IF has_end_positions(t)
        THEN ", end: (" \o ToString(sequence1_end_position(t, d).val[1]) \o ","
             \o ToString(sequence2_end_position(t, d).val[1]) \o ")"
        ELSE "")
    \o (IF has_alignment(t) THEN "\nalignment:\n" \o alignment(t, d).val[1] ELSE "")
    \o "}"

(***************************************************************************)
(* The life of one alignment_result object: unbuilt, built, moved_from.    *)
(* A moved-from result is only assigned to again, the one use that has a   *)
(* meaning whatever the types of the members are.                          *)
(***************************************************************************)
NoReturn == [ok |-> TRUE, val |-> NullOpt]

InitResult ==
    /\ pc = "unbuilt"
    /\ T = {}
    /\ deduced = NoGuide
    /\ value = DefaultData({})
    /\ data = DefaultData({})
    /\ lastOp = "none"
    /\ ret = NoReturn
    /\ out = ""
    /\ called = {}

\* alignment_result(alignment_result_value_t value) : data(std::move(value))
alignment_result(v) == v

\* build(requested, raw) of the result builder.
Build ==
    \E requested \in SUBSET Fields, raw \in AlgorithmOutput :
        /\ pc = "unbuilt"
        /\ pc' = "built"
        /\ T' = requested
        /\ deduced' = NoGuide
        /\ value' = alignment_result_value_type(requested, raw)
        /\ data' = alignment_result(alignment_result_value_type(requested, raw))
        /\ lastOp' = "build"
        /\ ret' = NoReturn
        /\ out' = ""
        /\ called' = {}
        /\ UNCHANGED configVars

\* alignment_result{alignment_result_value_type{a1, ..., ak}}
ConstructFromGuide ==
    \E k \in GuideArities, raw \in AlgorithmOutput :
        /\ pc = "unbuilt"
        /\ pc' = "built"
        /\ T' = DeductionGuide(k)
        /\ deduced' = k
        /\ value' = alignment_result_value_type(DeductionGuide(k), raw)
        /\ data' = alignment_result(alignment_result_value_type(DeductionGuide(k), raw))
        /\ lastOp' = "construct"
        /\ ret' = NoReturn
        /\ out' = ""
        /\ called' = {}
        /\ UNCHANGED configVars

\* alignment_result() = default
DefaultConstruct ==
    \E t \in SUBSET Fields :
        /\ pc = "unbuilt"
        /\ pc' = "built"
        /\ T' = t
        /\ deduced' = NoGuide
        /\ value' = DefaultData(t)
        /\ data' = DefaultData(t)
        /\ lastOp' = "default_construct"
        /\ ret' = NoReturn
        /\ out' = ""
        /\ called' = {}
        /\ UNCHANGED configVars

\* result.a() for one accessor a
Access ==
    \E a \in Accessors :
        /\ pc = "built"
        /\ lastOp' = a
        /\ ret' = Call(a, T, data)
        /\ data' = ConstRead(a, T, data)
        /\ out' = ""
        /\ called' = {}
        /\ UNCHANGED <<pc, T, deduced, value>>
        /\ UNCHANGED configVars

\* alignment_result copy{result}
CopyConstruct ==
    /\ pc = "built"
    /\ lastOp' = "copy_construct"
    /\ ret' = Ok(Some(data))
    /\ out' = ""
    /\ called' = {}
    /\ UNCHANGED <<pc, T, deduced, value, data>>
    /\ UNCHANGED configVars

\* alignment_result moved{std::move(result)}
MoveConstruct ==
    /\ pc = "built"
    /\ pc' = "moved_from"
    /\ lastOp' = "move_construct"
    /\ ret' = Ok(Some(data))
    /\ data' \in MovedFrom(T, data)
    /\ out' = ""
    /\ called' = {}
    /\ UNCHANGED <<T, deduced, value>>
    /\ UNCHANGED configVars

\* result = other, for another result of the same type built from w
CopyAssign ==
    \E w \in AssignSources(T) :
        /\ pc # "unbuilt"
        /\ pc' = "built"
        /\ lastOp' = "copy_assign"
        /\ value' = w
        /\ data' = w
        /\ ret' = NoReturn
        /\ out' = ""
        /\ called' = {}
        /\ UNCHANGED <<T, deduced>>
        /\ UNCHANGED configVars

\* result = std::move(other), for another result of the same type built from w
MoveAssign ==
    \E w \in AssignSources(T) :
        /\ pc # "unbuilt"
        /\ pc' = "built"
        /\ lastOp' = "move_assign"
        /\ value' = w
        /\ data' = w
        /\ ret' = NoReturn
        /\ out' = ""
        /\ called' = {}
        /\ UNCHANGED <<T, deduced>>
        /\ UNCHANGED configVars

\* debug_stream << result
Stream ==
    /\ pc = "built"
    /\ lastOp' = "stream"
    /\ called' = StreamCalls(T)
    /\ IF \A a \in StreamCalls(T) : Call(a, T, data).ok
       THEN /\ ret' = NoReturn
            /\ out' = StreamText(T, data)
       ELSE /\ ret' = CapabilityError
            /\ out' = ""
    /\ UNCHANGED <<pc, T, deduced, value, data>>
    /\ UNCHANGED configVars

(***************************************************************************)
(* The error-budget configuration elements.  Each class wraps one          *)
(* std::variant<error_count, error_rate> and carries a static id.          *)
(***************************************************************************)
search_config_id ==
    { "max_error_total", "max_error_substitution", "max_error_insertion",
      "max_error_deletion" }

\* error_count{c}
Count(c) == [tag |-> "count", v |-> c]

\* error_rate{n / 10}
Rate(n) == [tag |-> "rate", v |-> n]

TaggedValues == { Count(3), Count(5), Rate(1) }

\* A rate of 1.0, in tenths.
RateScale == 10

Constructed(x) == [ok |-> TRUE, val |-> Some(x), err |-> "none"]

RangeError == [ok |-> FALSE, val |-> NullOpt, err |-> "RangeError"]

NothingMade == [ok |-> FALSE, val |-> NullOpt, err |-> "none"]

\* Mutant: the range of the argument is not checked.
error_count_Unchecked(c) == Constructed(Count(c))

\* Construction of the count alternative from the integer c.
error_count(c) == IF c < 0 THEN RangeError ELSE Constructed(Count(c))

\* Construction of the rate alternative from n tenths.
error_rate(n) == IF n < 0 \/ n > RateScale THEN RangeError ELSE Constructed(Rate(n))

CountInputs == (0 - MaxCount) .. MaxCount

RateInputs == { -1, 0, 1, RateScale, RateScale + 1 }

max_error_total(v) == [id |-> "max_error_total", value |-> v]

max_error_substitution(v) == [id |-> "max_error_substitution", value |-> v]

\* Mutant: the id of max_error_deletion pasted into max_error_insertion.
max_error_insertion_CopyPaste(v) == [id |-> "max_error_deletion", value |-> v]

max_error_insertion(v) == [id |-> "max_error_insertion", value |-> v]

max_error_deletion(v) == [id |-> "max_error_deletion", value |-> v]

ElementClasses ==
    { "max_error_total", "max_error_substitution", "max_error_insertion",
      "max_error_deletion" }

\* An object of class k holding v.
Element(k, v) ==
    CASE k = "max_error_total" -> max_error_total(v)
      [] k = "max_error_substitution" -> max_error_substitution(v)
      [] k = "max_error_insertion" -> max_error_insertion(v)
      [] k = "max_error_deletion" -> max_error_deletion(v)

\* Mutant: a repeated category discards what the bundle held before.
combine_Reset(b, e) ==
    IF \E i \in 1 .. Len(b) : b[i].id = e.id THEN << e >> ELSE Append(b, e)

\* combine(bundle, element): the newer element of a category replaces the older.
combine(b, e) ==
    IF \E i \in 1 .. Len(b) : b[i].id = e.id
    THEN [i \in 1 .. Len(b) |-> IF b[i].id = e.id THEN e ELSE b[i]]
    ELSE Append(b, e)

\* combine(bundle, bundle): the elements of the right bundle, in their order.
RECURSIVE CombineBundles(_, _)
CombineBundles(a, b) ==
    IF b = << >> THEN a ELSE CombineBundles(combine(a, Head(b)), Tail(b))

\* get(bundle, category)
get(b, c) ==
    IF \E i \in 1 .. Len(b) : b[i].id = c
    THEN Some((CHOOSE e \in { b[i] : i \in 1 .. Len(b) } : e.id = c).value)
    ELSE NullOpt

\* The bundle a sequence of (class, value) pairs builds, combined one by one.
RECURSIVE BundleOf(_)
BundleOf(h) ==
    IF h = << >> THEN << >>
    ELSE combine(BundleOf(SubSeq(h, 1, Len(h) - 1)), Element(h[Len(h)][1], h[Len(h)][2]))

InitConfig ==
    /\ bundle = << >>
    /\ history = << >>
    /\ arg = [kind |-> "none", x |-> 0]
    /\ made = NothingMade
    /\ vop = "none"

\* bundle | element
CombineElement ==
    \E k \in ElementClasses, v \in TaggedValues :
        /\ Len(history) < MaxCombines
        /\ bundle' = combine(bundle, Element(k, v))
        /\ history' = Append(history, << k, v >>)
        /\ UNCHANGED valueVars
        /\ UNCHANGED resultVars

\* bundle | (element | element)
CombineBundle ==
    \E k1 \in ElementClasses, v1 \in TaggedValues,
       k2 \in ElementClasses, v2 \in TaggedValues :
        /\ Len(history) + 2 <= MaxCombines
        /\ bundle' = CombineBundles(bundle, BundleOf(<< << k1, v1 >>, << k2, v2 >> >>))
        /\ history' = history \o << << k1, v1 >>, << k2, v2 >> >>
        /\ UNCHANGED valueVars
        /\ UNCHANGED resultVars

\* error_count{c}
ConstructCount ==
    \E c \in CountInputs :
        /\ arg' = [kind |-> "count", x |-> c]
        /\ made' = error_count(c)
        /\ vop' = "construct"
        /\ UNCHANGED <<bundle, history>>
        /\ UNCHANGED resultVars

\* error_rate{n / 10}
ConstructRate ==
    \E n \in RateInputs :
        /\ arg' = [kind |-> "rate", x |-> n]
        /\ made' = error_rate(n)
        /\ vop' = "construct"
        /\ UNCHANGED <<bundle, history>>
        /\ UNCHANGED resultVars

\* bundle | max_error_k{made}
StoreInElement ==
    \E k \in ElementClasses :
        /\ made.ok
        /\ Len(history) < MaxStores
        /\ bundle' = combine(bundle, Element(k, made.val[1]))
        /\ history' = Append(history, << k, made.val[1] >>)
        /\ vop' = "store"
        /\ UNCHANGED <<arg, made>>
        /\ UNCHANGED resultVars

(***************************************************************************)
(* Specifications.                                                         *)
(***************************************************************************)
Init == InitResult /\ InitConfig

Next ==
    \/ ConstructFromGuide
    \/ DefaultConstruct
    \/ Build
    \/ Access
    \/ Stream
    \/ CopyConstruct
    \/ CopyAssign
    \/ MoveAssign
    \/ MoveConstruct

Spec == Init /\ [][Next]_vars

NextConfig ==
    \/ CombineElement
    \/ CombineBundle

SpecConfig == Init /\ [][NextConfig]_vars

NextValue ==
    \/ ConstructCount
    \/ ConstructRate
    \/ StoreInElement

SpecValue == Init /\ [][NextValue]_vars

(***************************************************************************)
(* Properties of alignment_result, checked under Spec.                     *)
(***************************************************************************)

\* C1: a result holds a real value for a field exactly if the field is among
\* the requested ones (the template arguments that are not std::nullopt_t *);
\* every other field carries the absent sentinel.
C1_PresentIffRequested ==
    pc # "unbuilt" => \A f \in Fields : (data[f] # NullOpt) <=> (f \in T)

C1_Witness ==
    /\ lastOp = "build"
    /\ T = { "id", "score", "end_positions" }
    /\ data.end_positions = Some(Pair(9, 11))
    /\ data.begin_positions = NullOpt
    /\ data.alignment = NullOpt

\* C2: an accessor of an absent field is rejected and yields no value, an
\* accessor of a present field succeeds; for every accessor of a built result
\* and for the call that ran last.
C2_AbsentRejectedPresentSucceeds ==
    /\ pc = "built" =>
         \A a \in Accessors :
            IF FieldOf(a) \in T
            THEN Call(a, T, data).ok /\ Call(a, T, data).val # NullOpt
            ELSE ~Call(a, T, data).ok /\ Call(a, T, data).val = NullOpt
    /\ lastOp \in Accessors =>
         IF FieldOf(lastOp) \in T
         THEN ret.ok /\ ret.val # NullOpt
         ELSE ~ret.ok /\ ret.val = NullOpt

C2_Witness ==
    /\ lastOp = "alignment"
    /\ T = { "id", "score" }
    /\ value.id = Some("r1")
    /\ value.score = Some(42)
    /\ ~ret.ok
    /\ ret.val = NullOpt

\* What the claim C3 expects accessor a to return for the value object v.
Expected(a, v) ==
    CASE a = "id" -> v.id
      [] a = "score" -> v.score
      [] a = "sequence1_end_position" -> Some(v.end_positions[1].first)
      [] a = "sequence2_end_position" -> Some(v.end_positions[1].second)
      [] a = "sequence1_begin_position" -> Some(v.begin_positions[1].first)
      [] a = "sequence2_begin_position" -> Some(v.begin_positions[1].second)
      [] a = "alignment" -> v.alignment
      [] a = "score_matrix" -> v.score_debug_matrix
      [] a = "trace_matrix" -> v.trace_debug_matrix

\* C3: round trip: every accessor of a present field of a result built from
\* the value object `value` returns what `value` stores for that field, the
\* first and second sequence and begin and end not exchanged.
C3_RoundTrip ==
    /\ pc = "built" =>
         \A a \in Accessors :
            FieldOf(a) \in T => Call(a, T, data).val = Expected(a, value)
    /\ (pc = "built" /\ lastOp \in Accessors /\ FieldOf(lastOp) \in T) =>
         ret.val = Expected(lastOp, value)

C3_Witness ==
    /\ pc = "built"
    /\ lastOp = "sequence2_end_position"
    /\ value.end_positions = Some(Pair(9, 11))
    /\ "begin_positions" \in T
    /\ value.begin_positions = Some(Pair(2, 3))
    /\ ret.val = Some(11)

ReadOnlyOps == Accessors \cup { "copy_construct", "stream" }

\* C4 as stated: after construction no operation of the public interface
\* changes the presence or the value of any field of the result.
C4_ReadOnlyAfterAnyOperation ==
    [][pc # "unbuilt" => (T' = T /\ data' = data)]_vars

\* C4 amended: no operation changes which fields are present; accessor
\* calls, copy construction from the result and streaming leave every value
\* as it was (assignment to the result and moving from it do not).
C4_PresenceFixedReadsPure ==
    [][pc # "unbuilt" =>
         /\ T' = T
         /\ \A f \in Fields : (data'[f] = NullOpt) <=> (data[f] = NullOpt)
         /\ lastOp' \in ReadOnlyOps => data' = data]_vars

C4_Witness ==
    /\ pc = "built"
    /\ lastOp = "alignment"
    /\ ret = Ok(Some("AC-T|ACGT"))
    /\ data.alignment = Some("AC-T|ACGT")
    /\ data = value

\* C5: every result obtained by default construction or from a value object
\* of a deduction guide contains an identifier and a score: id() and score()
\* are accessible.
C5_AlwaysIdAndScore ==
    (pc = "built" /\ lastOp \in { "construct", "default_construct" }) =>
        id(T, data).ok /\ score(T, data).ok

\* The text of one present field as the claim C6 lists it.
FieldText(f, d) ==
    CASE f = "id" -> "id: " \o d.id[1]
      [] f = "score" -> "score: " \o ToString(d.score[1])
      [] f = "begin_positions" ->
            "begin: (" \o ToString(d.begin_positions[1].first) \o ","
            \o ToString(d.begin_positions[1].second) \o ")"
      [] f = "end_positions" ->
            "end: (" \o ToString(d.end_positions[1].first) \o ","
            \o ToString(d.end_positions[1].second) \o ")"
      [] f = "alignment" -> "\nalignment:\n" \o d.alignment[1]

StreamOrder == << "id", "score", "begin_positions", "end_positions", "alignment" >>

\* The present fields among the first n of StreamOrder, joined by ", ".
RECURSIVE Joined(_, _, _)
Joined(n, t, d) ==
    IF n = 0 THEN ""
    ELSE IF StreamOrder[n] \notin t THEN Joined(n - 1, t, d)
    ELSE IF Joined(n - 1, t, d) = "" THEN FieldText(StreamOrder[n], d)
    ELSE Joined(n - 1, t, d) \o ", " \o FieldText(StreamOrder[n], d)

\* C6: the debug-stream output is the opening brace, the present fields in
\* the order id, score, begin, end, alignment with a separator only between
\* two emitted fields, and the closing brace.
C6_StreamFormat ==
    (lastOp = "stream" /\ ret.ok) =>
        out = "{" \o Joined(Len(StreamOrder), T, data) \o "}"

\* C6, the scenario of the specification: id, score, begin and end present.
C6_ScenarioText ==
    (lastOp = "stream"
     /\ T = { "id", "score", "begin_positions", "end_positions" }
     /\ data = alignment_result_value_type(T, ScenarioOutput)) =>
        out = "{id: r1, score: 42, begin: (2,3), end: (9,11)}"

\* C7: operator<< invokes an accessor only of a field that is present, and
\* streaming ends without a rejected access.
C7_StreamCallsOnlyPresent ==
    lastOp = "stream" => (ret.ok /\ \A a \in called : FieldOf(a) \in T)

C7_Witness ==
    /\ lastOp = "stream"
    /\ "begin_positions" \notin T
    /\ "id" \notin T
    /\ called = { "score", "sequence1_end_position", "sequence2_end_position" }
    /\ ret.ok

BothPositions == { "begin_positions", "end_positions" } \subseteq T

LastCombined(h, k) ==
    IF \E i \in 1 .. Len(h) : h[i][1] = k
    THEN LET last == CHOOSE i \in 1 .. Len(h) :
                        /\ h[i][1] = k
                        /\ \A j \in (i + 1) .. Len(h) : h[j][1] # k
         IN Some(h[last][2])
    ELSE NullOpt

\* C9: the bundle holds at most one element per category, get returns the
\* value of the element of that category combined last, and a category never
\* combined is absent.
C9_LastWriteWins ==
    /\ \A i, j \in 1 .. Len(bundle) : i # j => bundle[i].id # bundle[j].id
    /\ \A k \in ElementClasses : get(bundle, k) = LastCombined(history, k)

C9_Witness ==
    /\ history = << << "max_error_total", Count(3) >>, << "max_error_total", Count(5) >> >>
    /\ Len(bundle) = 1
    /\ get(bundle, "max_error_total") = Some(Count(5))
    /\ get(bundle, "max_error_insertion") = NullOpt

\* C10: for every way to cut the combined elements into three consecutive
\* bundles A, B, C, combine(combine(A, B), C) and combine(A, combine(B, C))
\* answer get alike for every category, and as the bundle built does.
C10_CombineAssociative ==
    \A i, j \in 0 .. Len(history) :
        i <= j =>
            LET A == BundleOf(SubSeq(history, 1, i))
                B == BundleOf(SubSeq(history, i + 1, j))
                C == BundleOf(SubSeq(history, j + 1, Len(history)))
            IN \A c \in search_config_id :
                    /\ get(CombineBundles(CombineBundles(A, B), C), c)
                         = get(CombineBundles(A, CombineBundles(B, C)), c)
                    /\ get(CombineBundles(CombineBundles(A, B), C), c) = get(bundle, c)

C10_Witness ==
    /\ Len(history) = 3
    /\ history[1][1] = "max_error_total"
    /\ history[2][1] = "max_error_substitution"
    /\ history[3][1] = "max_error_total"
    /\ history[1][2] = Count(3)
    /\ history[3][2] = Count(5)
    /\ get(bundle, "max_error_total") = Some(Count(5))
    /\ get(bundle, "max_error_substitution") # NullOpt

(***************************************************************************)
(* Properties of the error-budget values, checked under SpecValue.         *)
(***************************************************************************)

\* C11: constructing the count alternative from c >= 0 succeeds and gives a
\* value with the count alternative active that reports c, also once it is
\* held by a configuration element; from c < 0 it fails with RangeError and
\* gives no value.
C11_CountConstruction ==
    /\ (vop = "construct" /\ arg.kind = "count") =>
         IF arg.x >= 0
         THEN made.ok /\ made.val = Some([tag |-> "count", v |-> arg.x])
         ELSE ~made.ok /\ made.err = "RangeError" /\ made.val = NullOpt
    /\ (vop = "store" /\ arg.kind = "count") =>
         /\ arg.x >= 0
         /\ get(bundle, history[Len(history)][1]) = Some([tag |-> "count", v |-> arg.x])

C11_Witness ==
    /\ history = << << "max_error_total", [tag |-> "count", v |-> 2] >> >>
    /\ get(bundle, "max_error_total") = Some([tag |-> "count", v |-> 2])
    /\ vop = "construct"
    /\ arg = [kind |-> "count", x |-> -1]
    /\ made = RangeError

(***************************************************************************)
(* C12.                                                                    *)
(***************************************************************************)
\* The fields the claim expects of a guide with k constructor arguments.
FirstFields(k) ==
    CASE k = 0 -> {}
      [] k = 2 -> { "id", "score" }
      [] k = 3 -> { "id", "score", "end_positions" }
      [] k = 4 -> { "id", "score", "end_positions", "begin_positions" }
      [] k = 5 -> { "id", "score", "end_positions", "begin_positions", "alignment" }

====
